---- MODULE Spec2Model ----
(***************************************************************************)
(* Model of the mbox Scanner (package mbox): the split function            *)
(* scanMessage with its separator finder findFroms, and the pull iterator  *)
(* Scanner (Next / Err / Message / Location / Buffer) running on top of a  *)
(* bufio.Scanner that is fed by an io.Reader in arbitrary chunks.          *)
(*                                                                         *)
(* Bytes are their ASCII codes; a []byte is a sequence of codes.  Offsets  *)
(* are 0-based as in the Go code, so data[i] of the code is data[i+1].     *)
(***************************************************************************)
EXTENDS Integers, Sequences, FiniteSets, TLC

\* ------------------------------------------------------------------ bounds
\* Largest number of records concatenated into one input stream.
MaxRecs == 2

\* The buffer a caller may hand to Scanner.Buffer: the length of the initial
\* buffer and the maximum size of a buffer.
SmallBuf == 8
SmallMax == 24

\* The io.Reader delivers at most MaxChunk bytes in one Read, or else all
\* the bytes that are left and fit the buffer.
MaxChunk == 3

\* ------------------------------------------------------------- byte helpers
Min(S) == CHOOSE x \in S : \A y \in S : x <= y

\* data[a:b] of Go (0-based, b exclusive).
Slice(data, a, b) == SubSeq(data, a + 1, b)

\* data[a:] of Go.
SliceFrom(data, a) == SubSeq(data, a + 1, Len(data))

\* bytes.HasPrefix(data, pat)
HasPrefix(data, pat) ==
    /\ Len(data) >= Len(pat)
    /\ \A j \in 1..Len(pat) : data[j] = pat[j]

\* bytes.Index(data, pat): offset of the first occurrence of pat, or -1.
Index(data, pat) ==
    LET hits == { i \in 0..(Len(data) - Len(pat)) :
                     \A j \in 1..Len(pat) : data[i + j] = pat[j] }
    IN  IF hits = {} THEN -1 ELSE Min(hits)

\* bytes.IndexByte(data, c)
IndexByte(data, c) == Index(data, <<c>>)

\* The byte strings the code names.
NL       == <<10>>                          \* "\n"
FromSP   == <<70, 114, 111, 109, 32>>       \* "From "
NLFromSP == NL \o FromSP                    \* "\nFrom "
NLNL     == <<10, 10>>                      \* "\n\n"
NLNLNL   == <<10, 10, 10>>                  \* "\n\n\n"

IsDigit(c) == c <= 57 /\ c >= 48            \* '0' <= c <= '9'

\* ------------------------------------------------------------- findFroms
\* yearCheck with the test on the last four characters left out.
yearCheckNone(data, nextLine) == TRUE

\* The year test of findFroms on the line whose line break is at offset
\* nextLine: three digits before the break, preceded by '1' or '2'.
yearCheck(data, nextLine) ==
    /\ IsDigit(data[nextLine])              \* data[nextLine-1]
    /\ IsDigit(data[nextLine - 1])          \* data[nextLine-2]
    /\ IsDigit(data[nextLine - 2])          \* data[nextLine-3]
    /\ (data[nextLine - 3] = 49 \/ data[nextLine - 3] = 50)

RECURSIVE findFromsAt(_, _)
\* One pass of the for loop of findFroms with the given curPos.
findFromsAt(data, curPos) ==
    LET rest     == SliceFrom(data, curPos)
        idx      == Index(rest, NLFromSP)
        fromRel  == IF HasPrefix(rest, FromSP) THEN 0 ELSE idx
    IN  IF fromRel = -1 THEN <<-1, -1>>
        ELSE
          LET fromPos == fromRel + curPos
              nlRel   == IndexByte(SliceFrom(data, fromPos + 1), 10)
          IN  IF nlRel = -1 THEN <<-1, -1>>
              ELSE
                LET nextLine == nlRel + fromPos + 1
                IN  IF yearCheck(data, nextLine)
                    THEN <<fromPos, nextLine + 1>>
                    ELSE findFromsAt(data, nextLine)

\* findFroms that finds no separator in data that starts with a line break.
findFromsNoLeadingLF(data) ==
    IF HasPrefix(data, NL) THEN <<-1, -1>> ELSE findFromsAt(data, 0)

\* findFroms(data) (start, end) of the first candidate separator line in
\* data, or (-1, -1).
findFroms(data) == findFromsAt(data, 0)

\* ------------------------------------------- net/textproto, net/mail (Go 1.21)
Max(S) == CHOOSE x \in S : \A y \in S : x >= y

IsLWS(c) == c = 32 \/ c = 9                 \* ' ' or '\t'

\* textproto trim: leading and trailing spaces and tabs removed.
trim(s) ==
    LET keep == { i \in 1..Len(s) : ~IsLWS(s[i]) }
    IN  IF keep = {} THEN <<>> ELSE SubSeq(s, Min(keep), Max(keep))

\* bytes.TrimLeft(v, " \t")
TrimLeft(s) ==
    LET keep == { i \in 1..Len(s) : ~IsLWS(s[i]) }
    IN  IF keep = {} THEN <<>> ELSE SubSeq(s, Min(keep), Len(s))

\* One line of data starting at offset pos: its bytes without the line
\* break (and without a "\r" before it) and the offset after the line.
readLineSlice(data, pos) ==
    LET nl   == IndexByte(SliceFrom(data, pos), 10)
        stop == IF nl = -1 THEN Len(data) ELSE pos + nl
        raw  == Slice(data, pos, stop)
        line == IF Len(raw) > 0 /\ raw[Len(raw)] = 13
                THEN SubSeq(raw, 1, Len(raw) - 1) ELSE raw
    IN  [line |-> line, next |-> IF nl = -1 THEN Len(data) ELSE stop + 1]

RECURSIVE continuedAt(_, _, _)
\* The continuation lines (lines that start with a space or a tab) that
\* follow offset pos, each appended to acc after one space.
continuedAt(data, pos, acc) ==
    IF pos < Len(data) /\ IsLWS(data[pos + 1])
    THEN LET l == readLineSlice(data, pos)
         IN  continuedAt(data, l.next, acc \o <<32>> \o trim(l.line))
    ELSE [kv |-> acc, next |-> pos]

\* validHeaderFieldByte: the token characters of RFC 7230.
validHeaderFieldByte(c) ==
    \/ c >= 48 /\ c <= 57
    \/ c >= 65 /\ c <= 90
    \/ c >= 97 /\ c <= 122
    \/ c \in {33, 35, 36, 37, 38, 39, 42, 43, 45, 46, 94, 95, 96, 124, 126}

\* canonicalMIMEHeaderKey: upper case starts the key and follows each '-',
\* lower case elsewhere; a key with a space is left as it is.
CanonicalMIMEHeaderKey(k) ==
    IF \E i \in 1..Len(k) : k[i] = 32 THEN k
    ELSE [ i \in 1..Len(k) |->
             LET c     == k[i]
                 upper == i = 1 \/ k[i - 1] = 45
             IN  IF upper /\ c >= 97 /\ c <= 122 THEN c - 32
                 ELSE IF ~upper /\ c >= 65 /\ c <= 90 THEN c + 32
                 ELSE c ]

RECURSIVE readMIMEHeaderAt(_, _, _)

\* ReadMIMEHeader on the key k and the value v of one field: the key is
\* checked and made canonical, the value checked, the field appended.
headerField(data, next, hdr, k, v) ==
    IF \E i \in 1..Len(k) : ~validHeaderFieldByte(k[i]) /\ k[i] # 32
    THEN [hdr |-> hdr, err |-> "malformed", rest |-> next]
    ELSE IF \E i \in 1..Len(v) : v[i] < 32 /\ v[i] # 9
    THEN [hdr |-> hdr, err |-> "malformed", rest |-> next]
    ELSE IF Len(k) = 0
    THEN readMIMEHeaderAt(data, next, hdr)
    ELSE readMIMEHeaderAt(data, next,
           Append(hdr, <<CanonicalMIMEHeaderKey(k), TrimLeft(v)>>))

\* ReadMIMEHeader on one continued line kv: an empty one ends the header,
\* one without a colon is malformed, the key ends at the first colon.
headerLine(data, next, hdr, kv, colon) ==
    IF Len(kv) = 0
    THEN [hdr |-> hdr, err |-> "nil", rest |-> next]
    ELSE IF colon = -1
    THEN [hdr |-> hdr, err |-> "malformed", rest |-> next]
    ELSE headerField(data, next, hdr, Slice(kv, 0, colon),
                     SliceFrom(kv, colon + 1))

\* readContinuedLineSlice: the line first (a blank line ends the header)
\* with the continuation lines that follow it.
headerContinued(data, hdr, c) ==
    headerLine(data, c.next, hdr, c.kv, IndexByte(c.kv, 58))

headerFirst(data, hdr, first) ==
    IF Len(first.line) = 0
    THEN [hdr |-> hdr, err |-> "nil", rest |-> first.next]
    ELSE headerContinued(data, hdr,
                         continuedAt(data, first.next, trim(first.line)))

\* The for loop of textproto.Reader.ReadMIMEHeader from offset pos with
\* the fields hdr read so far (a sequence of <<key, value>>).  rest is the
\* offset at which the reader stands when it returns.
readMIMEHeaderAt(data, pos, hdr) ==
    IF pos >= Len(data) THEN [hdr |-> hdr, err |-> "EOF", rest |-> pos]
    ELSE headerFirst(data, hdr, readLineSlice(data, pos))

\* textproto.Reader.ReadMIMEHeader on the bytes of data.
ReadMIMEHeader(data) ==
    IF Len(data) > 0 /\ IsLWS(data[1])
    THEN [hdr |-> <<>>, err |-> "malformed", rest |-> readLineSlice(data, 0).next]
    ELSE readMIMEHeaderAt(data, 0, <<>>)

\* len(header): the number of distinct field names of a MIMEHeader.
HeaderLen(hdr) == Cardinality({ hdr[i][1] : i \in 1..Len(hdr) })

\* A *mail.Message; nil is NilMessage.
NilMessage == [nil |-> TRUE, Header |-> <<>>, Body |-> <<>>]

\* mail.ReadMessage with the header h read from token: an error of the
\* header is the error, but for io.EOF after at least one field.
messageOf(token, h) ==
    IF h.err # "nil" /\ (h.err # "EOF" \/ Len(h.hdr) = 0)
    THEN [m |-> NilMessage, err |-> h.err]
    ELSE [m   |-> [nil |-> FALSE, Header |-> h.hdr,
                   Body |-> SliceFrom(token, h.rest)],
          err |-> "nil"]

\* mail.ReadMessage(bytes.NewReader(token)): the message and the error.
ReadMessage(token) == messageOf(token, ReadMIMEHeader(token))

\* ------------------------------------------------------------ scanMessage
\* What a split function returns: the advance, the token (hasToken FALSE
\* is the nil token; from/to are the token's offsets in data) and the error.
SplitNone(advance) ==
    [advance |-> advance, hasToken |-> FALSE, from |-> 0, to |-> 0,
     token |-> <<>>, err |-> "nil"]

SplitToken(data, advance, from, to) ==
    [advance |-> advance, hasToken |-> TRUE, from |-> from, to |-> to,
     token |-> Slice(data, from, to), err |-> "nil"]

\* The header probe asks for three fields instead of two.
probeFailsThree(h) == h.err # "nil" \/ HeaderLen(h.hdr) < 3

\* err != nil || len(header) < 2: the candidate is no separator.
probeFails(h) == h.err # "nil" \/ HeaderLen(h.hdr) < 2

\* The token loses its last byte.
emitMessageShort(data, end, curStart) ==
    SplitToken(data, curStart - 1, end, curStart - 1)

\* The token is returned with no advance.
emitMessageStay(data, end, curStart) ==
    SplitToken(data, 0, end, curStart)

\* The advance goes past the "\nFrom " of the separator that ends the token.
emitMessagePast(data, end, curStart) ==
    SplitToken(data, curStart + Len(NLFromSP), end, curStart)

\* The advance is larger than the buffer.
emitMessageTooFar(data, end, curStart) ==
    SplitToken(data, Len(data) + 1, end, curStart)

\* return curStart - 1, data[end:curStart], nil
emitMessage(data, end, curStart) ==
    SplitToken(data, curStart - 1, end, curStart)

RECURSIVE scanMessageLoop(_, _, _, _)

\* The loop without the test of atEOF: with no further separator it asks
\* for more data even at the end of the input.
scanMessageLoopWait(data, atEOF, end, curEnd) ==
    LET prior == findFroms(SliceFrom(data, curEnd))
    IN  IF prior[1] = -1 \/ prior[2] = -1
        THEN SplitNone(0)
        ELSE
          LET curStart2 == prior[1] + curEnd
              curEnd2   == prior[2] + curEnd
          IN  IF Index(SliceFrom(data, curEnd2), NLNL) = -1
              THEN SplitNone(0)
              ELSE
                LET h == ReadMIMEHeader(SliceFrom(data, curEnd2))
                IN  IF probeFails(h)
                    THEN scanMessageLoop(data, atEOF, end, curEnd2)
                    ELSE emitMessage(data, end, curStart2)

\* The loop that returns all the bytes left as soon as atEOF is true,
\* whatever separators they hold.
scanMessageLoopRest(data, atEOF, end, curEnd) ==
    IF atEOF THEN SplitToken(data, Len(data), end, Len(data))
    ELSE
      LET prior == findFroms(SliceFrom(data, curEnd))
      IN  IF prior[1] = -1 \/ prior[2] = -1
          THEN SplitNone(0)
          ELSE
            LET curStart2 == prior[1] + curEnd
                curEnd2   == prior[2] + curEnd
            IN  IF Index(SliceFrom(data, curEnd2), NLNL) = -1
                THEN SplitNone(0)
                ELSE
                  LET h == ReadMIMEHeader(SliceFrom(data, curEnd2))
                  IN  IF probeFails(h)
                      THEN scanMessageLoop(data, atEOF, end, curEnd2)
                      ELSE emitMessage(data, end, curStart2)

\* The for loop of scanMessage: end is the offset after the first
\* separator line, curEnd the offset the search has reached.
scanMessageLoop(data, atEOF, end, curEnd) ==
    LET prior == findFroms(SliceFrom(data, curEnd))
    IN  IF prior[1] = -1 \/ prior[2] = -1
        THEN IF atEOF THEN SplitToken(data, Len(data), end, Len(data))
                      ELSE SplitNone(0)
        ELSE
          LET curStart2 == prior[1] + curEnd
              curEnd2   == prior[2] + curEnd
          IN  IF Index(SliceFrom(data, curEnd2), NLNL) = -1
              THEN SplitNone(0)
              ELSE
                LET h == ReadMIMEHeader(SliceFrom(data, curEnd2))
                IN  IF probeFails(h)
                    THEN scanMessageLoop(data, atEOF, end, curEnd2)
                    ELSE emitMessage(data, end, curStart2)

RECURSIVE scanMessageOffsets(_, _, _)
\* The values curEnd takes in the for loop of scanMessage, after acc: one
\* per candidate the loop reaches, until it returns.
scanMessageOffsets(data, curEnd, acc) ==
    LET prior == findFroms(SliceFrom(data, curEnd))
    IN  IF prior[1] = -1 \/ prior[2] = -1
        THEN acc
        ELSE IF Index(SliceFrom(data, prior[2] + curEnd), NLNL) = -1
        THEN Append(acc, prior[2] + curEnd)
        ELSE IF probeFails(ReadMIMEHeader(SliceFrom(data, prior[2] + curEnd)))
        THEN scanMessageOffsets(data, prior[2] + curEnd,
                                Append(acc, prior[2] + curEnd))
        ELSE Append(acc, prior[2] + curEnd)

\* scanMessage without the test of atEOF when no separator is found.
scanMessageNoWait(data, atEOF) ==
    IF Len(data) = 0 /\ atEOF THEN SplitNone(0)
    ELSE
      LET first == findFroms(data)
      IN  IF first[1] = -1 \/ first[2] = -1
          THEN SplitNone(Len(data))
          ELSE scanMessageLoop(data, atEOF, first[2], first[2])

\* scanMessage with the return that is commented out in the code: no
\* separator at the end of the input is ErrInvalidMboxFormat.
scanMessageStrict(data, atEOF) ==
    IF Len(data) = 0 /\ atEOF THEN SplitNone(0)
    ELSE
      LET first == findFroms(data)
      IN  IF first[1] = -1 \/ first[2] = -1
          THEN IF ~atEOF THEN SplitNone(0)
               ELSE [SplitNone(0) EXCEPT !.err = "ErrInvalidMboxFormat"]
          ELSE scanMessageLoop(data, atEOF, first[2], first[2])

\* scanMessage(data, atEOF)
scanMessage(data, atEOF) ==
    IF Len(data) = 0 /\ atEOF THEN SplitNone(0)
    ELSE
      LET first == findFroms(data)
      IN  IF first[1] = -1 \/ first[2] = -1
          THEN IF ~atEOF THEN SplitNone(0) ELSE SplitNone(Len(data))
          ELSE scanMessageLoop(data, atEOF, first[2], first[2])

\* ------------------------------------------------------------- scanHeader
\* scanHeader that returns the whole buffer once it holds "\n\n\n".
scanHeaderAll(data, atEOF) ==
    IF Len(data) = 0 /\ atEOF THEN SplitNone(0)
    ELSE IF Index(data, NLNLNL) = -1 /\ ~atEOF THEN SplitNone(0)
    ELSE SplitToken(data, Len(data), 0, Len(data))

\* scanHeader whose token leaves out the last line break of "\n\n\n".
scanHeaderTrim(data, atEOF) ==
    IF Len(data) = 0 /\ atEOF THEN SplitNone(0)
    ELSE IF Index(data, NLNLNL) = -1 /\ ~atEOF THEN SplitNone(0)
    ELSE IF atEOF THEN SplitToken(data, Len(data), 0, Len(data))
    ELSE SplitToken(data, Index(data, NLNLNL) + 3, 0, Index(data, NLNLNL) + 2)

\* scanHeader(data, atEOF)
scanHeader(data, atEOF) ==
    IF Len(data) = 0 /\ atEOF THEN SplitNone(0)
    ELSE IF Index(data, NLNLNL) = -1 /\ ~atEOF THEN SplitNone(0)
    ELSE IF atEOF THEN SplitToken(data, Len(data), 0, Len(data))
    ELSE SplitToken(data, Index(data, NLNLNL) + 3, 0, Index(data, NLNLNL) + 3)

\* ---------------------------------------------------------- input streams
\* The pieces the input streams are made of.
SepLine   == FromSP \o <<50, 48, 49, 53>> \o NL          \* "From 2015\n"
FieldA    == <<65, 58, 98>> \o NL                        \* "A:b\n"
FieldB    == <<66, 58, 99>> \o NL                        \* "B:c\n"
FieldCT   == <<67, 111, 110, 116, 101, 110, 116, 45, 84, 121, 112, 101, 58, 32,
               109, 117, 108, 116, 105, 112, 97, 114, 116, 47, 120, 59, 32,
               98, 111, 117, 110, 100, 97, 114, 121, 61, 81>> \o NL
                                 \* "Content-Type: multipart/x; boundary=Q\n"
Terminator == <<45, 45, 81, 45, 45>> \o NL               \* "--Q--\n"
TextX     == <<120>> \o NL                               \* "x\n"
TextY     == <<121>> \o NL                               \* "y\n"
FromNoYear == FromSP \o <<122>> \o NL                    \* "From z\n"
FromField(d) == <<70, 114, 111, 109, 58, 48 + d>> \o NL  \* "From:<d>\n"

\* The records an input stream is a concatenation of.
RecordNames ==
    {"msg", "msgBlank", "msgFrom", "msgLook", "msgMulti", "oneHdr", "noHdr",
     "noSep", "sepOnly", "unterm", "lf"}

RecordBytes(r) ==
    CASE r = "msg"      -> SepLine \o FieldA \o FieldB \o NL \o TextX
      [] r = "msgBlank" -> SepLine \o FieldA \o FieldB \o NL \o TextY \o NL
      [] r = "msgFrom"  -> SepLine \o FieldA \o FieldB \o NL \o FromNoYear \o NL
      [] r = "msgLook"  -> SepLine \o FieldA \o FieldB \o NL \o SepLine \o TextX \o NL
      [] r = "msgMulti" -> SepLine \o FieldCT \o FieldA \o NL \o TextY
                             \o SepLine \o FieldA \o FieldB \o NL \o TextX
                             \o Terminator \o NL
      [] r = "oneHdr"   -> SepLine \o FieldA \o NL \o TextX
      [] r = "noHdr"    -> SepLine \o TextX \o NL
      [] r = "noSep"    -> FieldA \o FieldB \o NL \o TextX
      [] r = "sepOnly"  -> FromSP \o <<50, 48, 49, 53>>
      [] r = "unterm"   -> SepLine \o FieldA \o FieldB \o NL \o <<120>>
      [] r = "lf"       -> NL
      [] r = "hdr0"     -> FromField(0) \o FieldA \o NL \o NL
      [] r = "hdr1"     -> FromField(1) \o FieldA \o NL \o NL
      [] r = "hdrOpen"  -> FromField(2) \o FieldA

RECURSIVE Concat(_)
\* The bytes of a sequence of records.
Concat(recs) ==
    IF recs = <<>> THEN <<>>
    ELSE RecordBytes(Head(recs)) \o Concat(Tail(recs))

\* Every sequence of at most n records.
RECURSIVE Archives(_)
Archives(n) ==
    IF n = 0 THEN {<<>>}
    ELSE LET shorter == Archives(n - 1)
         IN  shorter \cup { Append(a, r) : a \in shorter, r \in RecordNames }

\* The header blocks a stream read in header mode is a concatenation of:
\* two that end with the blank line pair, one that does not.
HeaderNames == {"hdr0", "hdr1", "hdrOpen"}

\* Every sequence of at most n header blocks.
RECURSIVE HeaderArchives(_)
HeaderArchives(n) ==
    IF n = 0 THEN {<<>>}
    ELSE LET shorter == HeaderArchives(n - 1)
         IN  shorter \cup { Append(a, r) : a \in shorter, r \in HeaderNames }

\* ------------------------------------------------------------------ state
VARIABLES
    archive,    \* the records the io.Reader's stream is made of
    rpos,       \* number of stream bytes the io.Reader has delivered
    s,          \* Scanner.s, the bufio.Scanner: buf (its length), start, end,
                \* err, maxTokenSize, scanCalled, token, split (the name
                \* of its split function)
    m,          \* Scanner.m
    curByte,    \* Scanner.curByte
    err,        \* Scanner.err
    pc,         \* where the caller stands: "idle", or inside Next in
                \* bufio.Scanner.Scan before the split ("scan") or the Read ("read")
    ret,        \* how the last call of Next returned: "none" (never called),
                \* "ok" (true), "sticky", "scan", "decode" (false)
    emitted,    \* the tokens Scan has delivered: their byte range in the stream
    split       \* the last direct call of scanMessage: the length n of the
                \* prefix of the stream it was given, atEOF and the result r

vars == <<archive, rpos, s, m, curByte, err, pc, ret, emitted, split>>

\* The bytes of the io.Reader.
stream == Concat(archive)

\* bufio constants.
startBufSize     == 4 * 1024
MaxScanTokenSize == 64 * 1024

\* s.buf[s.start:s.end]: the unconsumed bytes the bufio.Scanner holds.
window == Slice(stream, rpos - (s.end - s.start), rpos)

\* Err() that reports io.EOF as well.
ScannerErrRaw(e) == e

\* bufio.Scanner.Err(): io.EOF is not an error.
ScannerErr(e) == IF e = "EOF" THEN "nil" ELSE e

\* No direct call of scanMessage was made.
NoCall == [called |-> FALSE, n |-> 0, atEOF |-> FALSE, r |-> SplitNone(0)]

\* NewScanner(r, false)
Init ==
    /\ archive \in Archives(MaxRecs)
    /\ rpos = 0
    /\ s = [buf |-> 0, start |-> 0, end |-> 0, err |-> "nil",
            maxTokenSize |-> MaxScanTokenSize, scanCalled |-> FALSE,
            token |-> <<>>, split |-> "scanMessage"]
    /\ m = NilMessage
    /\ curByte = 0
    /\ err = "nil"
    /\ pc = "idle"
    /\ ret = "none"
    /\ emitted = <<>>
    /\ split = NoCall

\* NewScanner(r, true)
InitHeader ==
    /\ archive \in HeaderArchives(MaxRecs)
    /\ rpos = 0
    /\ s = [buf |-> 0, start |-> 0, end |-> 0, err |-> "nil",
            maxTokenSize |-> MaxScanTokenSize, scanCalled |-> FALSE,
            token |-> <<>>, split |-> "scanHeader"]
    /\ m = NilMessage
    /\ curByte = 0
    /\ err = "nil"
    /\ pc = "idle"
    /\ ret = "none"
    /\ emitted = <<>>
    /\ split = NoCall

\* ---------------------------------------------------------------- actions
\* Next without the test of m.err.
NextCallNoSticky ==
    /\ pc = "idle"
    /\ m' = NilMessage
    /\ pc' = "scan"
    /\ s' = [s EXCEPT !.scanCalled = TRUE]
    /\ UNCHANGED <<split, archive, rpos, curByte, err, emitted, ret>>

\* Scanner.Next, up to the call of m.s.Scan().
NextCall ==
    /\ pc = "idle"
    /\ m' = NilMessage
    /\ IF err # "nil"
       THEN /\ ret' = "sticky"
            /\ UNCHANGED <<pc, s>>
       ELSE /\ pc' = "scan"
            /\ s' = [s EXCEPT !.scanCalled = TRUE]
            /\ UNCHANGED ret
    /\ UNCHANGED <<split, archive, rpos, curByte, err, emitted>>

\* Scanner.Buffer(make([]byte, SmallBuf), SmallMax); bufio panics when
\* scanning has started.
Buffer ==
    /\ pc = "idle"
    /\ ~s.scanCalled
    /\ s' = [s EXCEPT !.buf = SmallBuf, !.maxTokenSize = SmallMax]
    /\ UNCHANGED <<split, archive, rpos, m, curByte, err, pc, ret, emitted>>

\* Scan returned false: the rest of Next.
ScanFalse(s1) ==
    /\ s' = s1
    /\ err' = ScannerErr(s1.err)
    /\ ret' = "scan"
    /\ pc' = "idle"
    /\ UNCHANGED <<split, archive, rpos, m, curByte, emitted>>

\* The rest of Next without the test of the error of mail.ReadMessage.
ScanTrueNoCheck(s1, from, to) ==
    /\ s' = s1
    /\ curByte' = curByte + Len(s1.token)
    /\ m' = ReadMessage(s1.token).m
    /\ err' = ReadMessage(s1.token).err
    /\ ret' = "ok"
    /\ pc' = "idle"
    /\ emitted' = Append(emitted, <<from, to>>)
    /\ UNCHANGED <<split, archive, rpos>>

\* The rest of Next with the error of mail.ReadMessage dropped.
ScanTrueDropErr(s1, from, to) ==
    /\ s' = s1
    /\ curByte' = curByte + Len(s1.token)
    /\ m' = ReadMessage(s1.token).m
    /\ err' = "nil"
    /\ ret' = "ok"
    /\ pc' = "idle"
    /\ emitted' = Append(emitted, <<from, to>>)
    /\ UNCHANGED <<split, archive, rpos>>

\* Scan returned true with s1.token: the rest of Next.
ScanTrue(s1, from, to) ==
    /\ s' = s1
    /\ curByte' = curByte + Len(s1.token)
    /\ m' = ReadMessage(s1.token).m
    /\ err' = ReadMessage(s1.token).err
    /\ ret' = IF err' # "nil" THEN "decode" ELSE "ok"
    /\ pc' = "idle"
    /\ emitted' = Append(emitted, <<from, to>>)
    /\ UNCHANGED <<split, archive, rpos>>

\* ScanMakeRoom without the limit: a full buffer is always doubled.
ScanMakeRoomNoLimit(s1) ==
    LET shift   == s1.start > 0 /\ (s1.end = s1.buf \/ s1.start > s1.buf \div 2)
        s2      == IF shift
                   THEN [s1 EXCEPT !.end = s1.end - s1.start, !.start = 0]
                   ELSE s1
        double  == IF s2.buf * 2 = 0 THEN startBufSize ELSE s2.buf * 2
    IN  /\ s' = IF s2.end = s2.buf
                THEN [s2 EXCEPT !.buf = double,
                                !.end = s2.end - s2.start, !.start = 0]
                ELSE s2
        /\ pc' = "read"
        /\ UNCHANGED <<split, archive, rpos, m, curByte, err, ret, emitted>>

\* bufio.Scanner.Scan: the buffer is shifted and grown to make room for
\* the next Read, or the token is too long.
ScanMakeRoom(s1) ==
    LET shift   == s1.start > 0 /\ (s1.end = s1.buf \/ s1.start > s1.buf \div 2)
        s2      == IF shift
                   THEN [s1 EXCEPT !.end = s1.end - s1.start, !.start = 0]
                   ELSE s1
        double  == IF s2.buf * 2 = 0 THEN startBufSize ELSE s2.buf * 2
        newSize == IF double > s2.maxTokenSize THEN s2.maxTokenSize ELSE double
    IN  IF s2.end = s2.buf
        THEN IF s2.buf >= s2.maxTokenSize
             THEN ScanFalse([s2 EXCEPT !.err = "ErrTooLong"])
             ELSE /\ s' = [s2 EXCEPT !.buf = newSize,
                                     !.end = s2.end - s2.start, !.start = 0]
                  /\ pc' = "read"
                  /\ UNCHANGED <<split, archive, rpos, m, curByte, err, ret, emitted>>
        ELSE /\ s' = s2
             /\ pc' = "read"
             /\ UNCHANGED <<split, archive, rpos, m, curByte, err, ret, emitted>>

\* bufio.Scanner.Scan after the split function returned r without a token:
\* the scan ends at the end of the input, or more bytes are read.
ScanNoToken(s1) ==
    IF s.err # "nil"
    THEN ScanFalse([s1 EXCEPT !.start = 0, !.end = 0])
    ELSE ScanMakeRoom(s1)

\* bufio.Scanner.Scan with the answer r of the split function: the advance
\* is checked and applied, the token kept.
ScanSplit(r) ==
    IF r.err # "nil"
    THEN ScanFalse([s EXCEPT !.err = r.err])
    ELSE IF r.advance < 0
    THEN ScanFalse([s EXCEPT !.err = "ErrNegativeAdvance"])
    ELSE IF r.advance > s.end - s.start
    THEN ScanFalse([s EXCEPT !.err = "ErrAdvanceTooFar"])
    ELSE IF r.hasToken
    THEN ScanTrue([s EXCEPT !.start = s.start + r.advance, !.token = r.token],
                  rpos - (s.end - s.start) + r.from,
                  rpos - (s.end - s.start) + r.to)
    ELSE ScanNoToken([s EXCEPT !.start = s.start + r.advance,
                               !.token = r.token])

\* s.split(data, atEOF): the split function NewScanner has set.
splitFunc(data, atEOF) ==
    IF s.split = "scanHeader" THEN scanHeader(data, atEOF)
    ELSE scanMessage(data, atEOF)

\* bufio.Scanner.Scan, one pass of its loop up to the Read: the split
\* function is run on the window.
Scan ==
    /\ pc = "scan"
    /\ IF s.end > s.start \/ s.err # "nil"
       THEN ScanSplit(splitFunc(window, s.err # "nil"))
       ELSE ScanMakeRoom(s)

\* bufio.Scanner.Scan, the Read of its loop: the io.Reader delivers the
\* next n bytes of the stream, and io.EOF with or after the last of them.
Read ==
    /\ pc = "read"
    /\ \E n \in 0..(Len(stream) - rpos), eof \in BOOLEAN :
         /\ n <= s.buf - s.end
         /\ n <= MaxChunk \/ n = Len(stream) - rpos \/ n = s.buf - s.end
         /\ n > 0 \/ eof
         /\ eof => n = Len(stream) - rpos
         /\ rpos' = rpos + n
         /\ s' = [s EXCEPT !.end = s.end + n,
                           !.err = IF eof THEN "EOF" ELSE s.err]
    /\ pc' = "scan"
    /\ UNCHANGED <<split, archive, m, curByte, err, ret, emitted>>

\* Scanner.Err()
Err == err

\* Scanner.Message()
Message == IF err # "nil" THEN NilMessage ELSE m

\* Scanner.Location()
Location == curByte

Next == Buffer \/ NextCall \/ Scan \/ Read

Spec == Init /\ [][Next]_vars

\* The Scanner in header mode.
SpecHeader == InitHeader /\ [][Next]_vars

\* WF_vars(Scan) written out: Scan is enabled exactly when pc = "scan",
\* and every step of it leaves pc = "scan".
FairScan == []<>(pc # "scan") \/ []<><<Scan>>_vars

\* The caller keeps calling Next, the bufio.Scanner runs its loop and the
\* io.Reader answers every Read.
SpecLive ==
    /\ Init /\ [][Next]_vars
    /\ WF_vars(NextCall) /\ WF_vars(Read) /\ FairScan

\* ------------------------------------------------- scanMessage called alone
\* scanMessage(data, atEOF) called as the tests call it, once, on a prefix
\* of the stream.
CallScanMessage ==
    /\ ~split.called
    /\ \E n \in 0..Len(stream), atEOF \in BOOLEAN :
         split' = [called |-> TRUE, n |-> n, atEOF |-> atEOF,
                   r |-> scanMessage(Slice(stream, 0, n), atEOF)]
    /\ UNCHANGED <<archive, rpos, s, m, curByte, err, pc, ret, emitted>>

NextSplit == CallScanMessage

SpecSplit == Init /\ [][NextSplit]_vars

\* -------------------------------------------------- scanHeader called alone
\* scanHeader(data, atEOF) called once on a prefix of a stream of header
\* blocks.
CallScanHeader ==
    /\ ~split.called
    /\ \E n \in 0..Len(stream), atEOF \in BOOLEAN :
         split' = [called |-> TRUE, n |-> n, atEOF |-> atEOF,
                   r |-> scanHeader(Slice(stream, 0, n), atEOF)]
    /\ UNCHANGED <<archive, rpos, s, m, curByte, err, pc, ret, emitted>>

NextSplitHeader == CallScanHeader

SpecSplitHeader == InitHeader /\ [][NextSplitHeader]_vars

\* ================================================================= claims
\* A well-formed record: a separator line that passes the year test, a
\* header block of two fields, a blank line and a body that has no line
\* passing the year test.
WellFormedNames == {"msg", "msgBlank", "msgFrom"}

\* The stream is N >= 1 well-formed messages, each after its separator line.
WellFormedArchive ==
    /\ archive # <<>>
    /\ \A i \in 1..Len(archive) : archive[i] \in WellFormedNames

\* Scanner.Buffer was not called: the buffer is bufio's own.
DefaultBuffer == s.maxTokenSize = MaxScanTokenSize

\* The offset in the stream at which record i starts (i up to Len + 1).
RecStart(i) == Len(Concat(SubSeq(archive, 1, i - 1)))

\* The message of record i: the bytes after its separator line.
MsgStart(i) == RecStart(i) + Len(SepLine)
MsgEnd(i)   == RecStart(i + 1)

\* A call of Next has returned false.
ReturnedFalse == pc = "idle" /\ ret \in {"sticky", "scan", "decode"}

\* The bytes of the i-th emitted token.
TokenBytes(i) == Slice(stream, emitted[i][1], emitted[i][2])

\* C1: in message mode a full scan of an archive of N well-formed messages,
\* each after a valid separator line, yields exactly N tokens; the i-th
\* token starts where message i starts and ends with message i (at its end
\* or one line break before it), and every one of these calls of Next
\* returns true.
C1_FullScanYieldsNTokens ==
    (WellFormedArchive /\ DefaultBuffer) =>
        /\ err = "nil"
        /\ Len(emitted) <= Len(archive)
        /\ \A i \in 1..Len(emitted) :
             /\ emitted[i][1] = MsgStart(i)
             /\ emitted[i][2] \in {MsgEnd(i) - 1, MsgEnd(i)}
        /\ ReturnedFalse => (ret = "scan" /\ Len(emitted) = Len(archive))

C1_Witness ==
    /\ WellFormedArchive /\ DefaultBuffer
    /\ Len(archive) = 2
    /\ ReturnedFalse
    /\ Len(emitted) = 2

RECURSIVE Reassemble(_, _)
\* Separator line i followed by token i, for i = 1..n, with gap put after
\* every token but the last of the archive.
Reassemble(n, gap) ==
    IF n = 0 THEN <<>>
    ELSE Reassemble(n - 1, gap)
           \o Slice(stream, RecStart(n), MsgStart(n))
           \o TokenBytes(n)
           \o (IF n < Len(archive) THEN gap ELSE <<>>)

C3_StickyError ==
    [][ (Err # "nil") =>
          /\ Err' = Err
          /\ Message' = NilMessage
          /\ pc' = "idle"
          /\ ret' \in {ret, "sticky"}
          /\ ret' # "ok"
          /\ emitted' = emitted ]_vars

C3_Witness == Err # "nil" /\ ret = "sticky" /\ Message = NilMessage

\* C4: when Next has returned true, Err() is nil and Message() is the
\* non-nil message decoded from the token this call of Next delivered.
C4_NextTrueHasMessage ==
    (pc = "idle" /\ ret = "ok") =>
        /\ Err = "nil"
        /\ emitted # <<>>
        /\ ~Message.nil
        /\ s.token = TokenBytes(Len(emitted))
        /\ Message = ReadMessage(TokenBytes(Len(emitted))).m

C4_Witness ==
    /\ pc = "idle" /\ ret = "ok"
    /\ Len(emitted) = 2
    /\ TokenBytes(1) # TokenBytes(2)
    /\ ~Message.nil

\* C5: Message() is nil before the first call of Next; when a well-formed
\* archive has been scanned, Next returns false with Err() nil and
\* Message() nil; and once Next has reported exhaustion, every later
\* call reports it again: no message, no error, no token.
C5_CleanExhaustion ==
    /\ [](ret = "none" => Message = NilMessage)
    /\ []((WellFormedArchive /\ DefaultBuffer /\ ReturnedFalse) =>
            (ret = "scan" /\ Err = "nil" /\ Message = NilMessage))
    /\ [][ (ret = "scan" /\ Err = "nil") =>
             /\ ret' = "scan"
             /\ Err' = "nil"
             /\ Message' = NilMessage
             /\ emitted' = emitted ]_vars

\* A third call of Next after the two messages of a well-formed archive
\* were delivered, and a further call after it.
C5_Witness ==
    /\ WellFormedArchive /\ DefaultBuffer
    /\ Len(emitted) = 2
    /\ ret = "scan" /\ pc = "scan"

\* The line of data that starts at offset p has a line break and its last
\* four characters are '1' or '2' and three digits.
YearShaped(data, p) ==
    LET nl == IndexByte(SliceFrom(data, p), 10)
        e  == p + nl
    IN  /\ nl >= 4
        /\ data[e - 3] \in {49, 50}
        /\ \A k \in (e - 2)..e : data[k] \in 48..57

\* The offsets of the stream at which a line starts with "From " and does
\* not pass the year test.
NoYearFromLines ==
    { p \in 0..(Len(stream) - 1) :
        /\ p = 0 \/ stream[p] = 10
        /\ HasPrefix(SliceFrom(stream, p), FromSP)
        /\ ~YearShaped(stream, p) }

\* C6: every span findFroms reports is a line that starts with "From " and
\* passes the four-character year test, and no token ends at a line that
\* starts with "From " and fails it.
C6_YearHeuristic ==
    /\ LET f  == findFroms(window)
           ls == IF window[f[1] + 1] = 10 THEN f[1] + 1 ELSE f[1]
       IN  f[1] # -1 =>
             /\ HasPrefix(SliceFrom(window, ls), FromSP)
             /\ YearShaped(window, ls)
             /\ f[2] = ls + IndexByte(SliceFrom(window, ls), 10) + 1
    /\ \A i \in 1..Len(emitted) : \A p \in NoYearFromLines :
          emitted[i][2] # p /\ emitted[i][2] + 1 # p

\* A token that holds a "From " line without a year was delivered.
C6_Witness ==
    \E i \in 1..Len(emitted) : \E p \in NoYearFromLines :
        /\ emitted[i][1] < p /\ p < emitted[i][2]
        /\ findFroms(window)[1] # -1

\* The offset in the stream after the terminator line "--Q--" of record i.
TerminatorEnd(i) ==
    RecStart(i) + Index(RecordBytes(archive[i]), NL \o Terminator)
                + Len(NL \o Terminator)

\* C7 as stated: a multipart message with a declared boundary is one token
\* that extends to and includes its terminator line; it is never split at a
\* candidate separator line that lies before the terminator.
C7_MultipartContainment ==
    \A i \in 1..Len(archive) : \A k \in 1..Len(emitted) :
        (archive[i] = "msgMulti" /\ emitted[k][1] = MsgStart(i)) =>
            emitted[k][2] >= TerminatorEnd(i)

\* The direct call was given a proper prefix of the stream of one
\* well-formed message, with atEOF = false.
ProperPrefixCall ==
    /\ split.called /\ ~split.atEOF
    /\ Len(archive) = 1 /\ WellFormedArchive
    /\ split.n < Len(stream)

\* C8: scanMessage on a proper prefix of a valid single-message archive with
\* atEOF = false returns advance 0, no token and no error; and whatever the
\* buffer, an answer with atEOF = false that has no token and no error has
\* advance 0.
C8_NeedMoreData ==
    /\ ProperPrefixCall =>
         (split.r.advance = 0 /\ ~split.r.hasToken /\ split.r.err = "nil")
    /\ (split.called /\ ~split.atEOF /\ ~split.r.hasToken /\ split.r.err = "nil")
         => split.r.advance = 0

\* A prefix that ends inside the body, after the separator line and the
\* header block.
C8_Witness ==
    /\ ProperPrefixCall
    /\ split.n = Len(stream) - 1
    /\ split.r.advance = 0 /\ ~split.r.hasToken

\* C9 as stated: scanMessage with atEOF = true on a separator line and one
\* message whose last byte is no line break returns the invalid-format
\* error, advance 0 and no token.
C9_UnterminatedFinalLine ==
    (split.called /\ split.atEOF /\ archive = <<"unterm">>
        /\ split.n = Len(stream)) =>
            (split.r.err # "nil" /\ split.r.advance = 0 /\ ~split.r.hasToken)

\* C10 as stated: for a non-empty stream with no complete separator line,
\* scanMessage at atEOF = true returns an error, advance 0 and no token,
\* and the first Next returns false with Err() non-nil and Message() nil.
C10_MissingSeparatorIsError ==
    (archive \in {<<"noSep">>, <<"sepOnly">>}) =>
        /\ (split.called /\ split.atEOF /\ split.n = Len(stream)) =>
             (split.r.err # "nil" /\ split.r.advance = 0 /\ ~split.r.hasToken)
        /\ (pc = "idle" /\ ret # "none") =>
             (ret # "ok" /\ Err # "nil" /\ Message = NilMessage)

\* The stream is K header blocks, each ended by the blank line pair, read in
\* header mode.
HeaderBlocks ==
    /\ s.split = "scanHeader"
    /\ \A i \in 1..Len(archive) : archive[i] \in {"hdr0", "hdr1"}

\* The value of the first field named "From" of a header.
FromOf(hdr) ==
    LET at == { i \in 1..Len(hdr) : hdr[i][1] = <<70, 114, 111, 109>> }
    IN  IF at = {} THEN <<>> ELSE hdr[Min(at)][2]

\* C11 as stated: in header mode, for a stream of K header blocks each ended
\* by the blank line pair, a full scan yields exactly K tokens, the j-th
\* token is the j-th block and its decoded From field is that block's,
\* however the reader cuts the stream and whenever it reports the end.
C11_HeaderModeTokenCount ==
    HeaderBlocks =>
        /\ \A j \in 1..Len(emitted) :
             /\ j <= Len(archive)
             /\ emitted[j] = <<RecStart(j), RecStart(j + 1)>>
             /\ FromOf(ReadMessage(TokenBytes(j)).m.Header)
                  = FromOf(ReadMessage(RecordBytes(archive[j])).m.Header)
        /\ ReturnedFalse => (Err = "nil" /\ Len(emitted) = Len(archive))

\* The number of stream bytes the bufio.Scanner has consumed: the offset in
\* the stream of s.buf[s.start].
Consumed == rpos - (s.end - s.start)

\* C12 as stated: Location() is the number of stream bytes consumed so far,
\* separator lines included: it is so after every Next that returned true,
\* and after the full scan of a well-formed archive it is the length of the
\* archive.
C12_LocationIsConsumed ==
    /\ (pc = "idle" /\ ret = "ok") => Location = Consumed
    /\ (WellFormedArchive /\ DefaultBuffer /\ ReturnedFalse) =>
          Location = Len(stream)

\* The token the last successful Scan delivered is no mail message.
LastTokenUndecodable ==
    /\ emitted # <<>>
    /\ ReadMessage(TokenBytes(Len(emitted))).err # "nil"

\* C13: when the token delivered for a message does not decode as a mail
\* message, that call of Next returns false, Err() is non-nil and Message()
\* is nil, and the calls of Next after it return false without a token; and
\* Err() is non-nil only after such a token or when the buffer limit was
\* hit, never because a candidate separator was rejected by the probe.
C13_DecodeFailure ==
    /\ []((pc = "idle" /\ LastTokenUndecodable) =>
            (ret \in {"decode", "sticky"} /\ Err # "nil"
               /\ Message = NilMessage))
    /\ [][ ret = "decode" =>
             (ret' \in {"decode", "sticky"} /\ emitted' = emitted
                /\ Err' = Err) ]_vars
    /\ [](Err # "nil" => (LastTokenUndecodable \/ s.err = "ErrTooLong"))

\* A separator line followed directly by body text was delivered as a
\* token, Next returned false and was called again.
C13_Witness ==
    /\ archive = <<"noHdr", "msg">>
    /\ LastTokenUndecodable
    /\ ret = "sticky" /\ Err # "nil" /\ Message = NilMessage

\* The split function asks for more data on a window that is as long as
\* the largest buffer allowed, before the end of the input.
FullWindowNeedsMore ==
    /\ pc = "scan" /\ s.err = "nil"
    /\ s.end - s.start = s.maxTokenSize
    /\ ~splitFunc(window, FALSE).hasToken
    /\ splitFunc(window, FALSE).advance = 0

\* C14: the buffer is never longer than the configured maximum; when the
\* split function asks for more data while the unconsumed window fills a
\* buffer of the maximum size, that call of Next returns false with Err()
\* the resource error and Message() nil; and the error stays: no later
\* call of Next returns true or delivers a token.
C14_BufferLimit ==
    /\ [](s.buf <= s.maxTokenSize)
    /\ [][ FullWindowNeedsMore =>
             (pc' = "idle" /\ ret' = "scan" /\ Err' = "ErrTooLong"
                /\ Message' = NilMessage) ]_vars
    /\ [][ Err = "ErrTooLong" =>
             (Err' = "ErrTooLong" /\ ret' \in {"scan", "sticky"}
                /\ pc' = "idle" /\ emitted' = emitted) ]_vars

\* The buffer grew to the maximum handed to Buffer, the scan stopped with
\* the resource error and Next was called again.
C14_Witness ==
    /\ s.buf = SmallMax /\ s.maxTokenSize = SmallMax
    /\ s.end - s.start = SmallMax
    /\ Err = "ErrTooLong" /\ ret = "sticky"

\* The bufio.Scanner is about to call scanMessage with atEOF = true on a
\* non-empty window in which findFroms reports no separator.
NoCandidateAtEOF ==
    /\ pc = "scan" /\ s.err = "EOF"
    /\ s.end > s.start
    /\ findFroms(window) = <<-1, -1>>

Candidates(data) ==
    { p \in 0..(Len(data) - 1) :
        /\ p = 0 \/ data[p] = 10
        /\ HasPrefix(SliceFrom(data, p), FromSP)
        /\ YearShaped(data, p) }

\* The offset after the line break of the line of data that starts at p.
LineEnd(data, p) == p + IndexByte(SliceFrom(data, p), 10) + 1

\* The buffer the direct call of scanMessage was given.
SplitData == Slice(stream, 0, split.n)

\* The direct call had atEOF = true and a buffer with exactly one
\* separator candidate.
OneCandidateAtEOF ==
    /\ split.called /\ split.atEOF
    /\ Cardinality(Candidates(SplitData)) = 1

C17_AdvanceCoversToken ==
    (split.called /\ split.r.hasToken) => split.r.advance >= split.r.to

\* C18: in message mode the byte ranges of the tokens delivered so far are
\* in the order of the stream and do not overlap: every token starts after
\* the start and at or after the end of every token delivered before it;
\* and every token starts right after the line break of a separator line.
C18_OrderedDisjoint ==
    /\ \A i \in 1..Len(emitted) : \A j \in 1..Len(emitted) :
          i < j => /\ emitted[i][1] < emitted[j][1]
                   /\ emitted[i][2] <= emitted[j][1]
    /\ \A i \in 1..Len(emitted) :
          /\ emitted[i][1] <= emitted[i][2]
          /\ \E p \in Candidates(stream) :
                LineEnd(stream, p) = emitted[i][1]

\* Two tokens were delivered, the second after a gap that holds the line
\* break and the separator line between them.
C18_Witness ==
    /\ Len(emitted) = 2
    /\ emitted[1][1] < emitted[1][2]
    /\ emitted[2][1] = emitted[1][2] + 1 + Len(SepLine)
    /\ emitted[2][1] < emitted[2][2]

\* The bytes of data after the line of the candidate at p decode as a
\* header block of at least two fields.
ValidHeaderAfter(data, p) ==
    LET h == ReadMIMEHeader(SliceFrom(data, LineEnd(data, p)))
    IN  h.err = "nil" /\ HeaderLen(h.hdr) >= 2

\* The candidates of data after the first one.
LaterCandidates(data) ==
    { p \in Candidates(data) : p > Min(Candidates(data)) }

\* Those of them that are followed by a valid header block.
ValidCandidates(data) ==
    { p \in LaterCandidates(data) : ValidHeaderAfter(data, p) }

\* C19 as stated: scanMessage never returns an error because of a
\* candidate.  A token that ends before the end of the buffer ends at a
\* candidate (or at the line break before it) that is followed by a valid
\* header block of at least two fields; every candidate inside a token is
\* one the probe rejects; when some later candidate is followed by a valid
\* header block, the token runs from the end of the first separator line to
\* the first such candidate, over the lines of the candidates rejected
\* before it; and when, at the end of the input, no later candidate is
\* followed by a valid header block, all of them are skipped and their
\* lines stay in the token, which runs to the end of the buffer.
C19_HeaderProbe ==
    split.called =>
        /\ split.r.err = "nil"
        /\ (split.r.hasToken /\ split.r.to < split.n) =>
              \E q \in ValidCandidates(SplitData) : q \in {split.r.to, split.r.to + 1}
        /\ split.r.hasToken =>
              \A p \in LaterCandidates(SplitData) :
                 (split.r.from <= p /\ p < split.r.to) =>
                     ~ValidHeaderAfter(SplitData, p)
        /\ (Candidates(SplitData) # {} /\ ValidCandidates(SplitData) # {}) =>
              /\ split.r.hasToken
              /\ split.r.from = LineEnd(SplitData, Min(Candidates(SplitData)))
              /\ split.r.to \in {Min(ValidCandidates(SplitData)) - 1,
                                 Min(ValidCandidates(SplitData))}
        /\ (split.atEOF /\ Candidates(SplitData) # {}
              /\ ValidCandidates(SplitData) = {}) =>
              /\ split.r.hasToken
              /\ split.r.from = LineEnd(SplitData, Min(Candidates(SplitData)))
              /\ split.r.to = split.n

\* C20 as stated: the token of a message that is ended by the separator
\* line of the next message ends with the line break of the message's last
\* line: when one blank line stands between that line and the separator
\* (msgBlank) the blank line is not in the token, and when the separator
\* follows the last line directly (msg) the token still has the line break
\* of the last line.
C20_TokenEndTrimming ==
    (WellFormedArchive /\ DefaultBuffer) =>
        \A i \in 1..Len(emitted) :
            i < Len(archive) =>
                /\ archive[i] = "msgBlank" => emitted[i][2] = MsgEnd(i) - 1
                /\ archive[i] = "msg" => emitted[i][2] = MsgEnd(i)
                /\ archive[i] \in {"msg", "msgBlank"} =>
                      stream[emitted[i][2]] = 10

RECURSIVE ScanAllFrom(_, _)
\* The loop of testMboxMessage on a reader that holds data: Next is called
\* until it returns false, the whole of data being in the buffer at the end
\* of the input.  acc is the tokens delivered so far.
ScanAllFrom(data, acc) ==
    LET r == scanMessage(data, TRUE)
    IN  IF ~r.hasToken
        THEN [tokens |-> acc, err |-> "nil"]
        ELSE IF ReadMessage(r.token).err # "nil"
        THEN [tokens |-> Append(acc, r.token), err |-> ReadMessage(r.token).err]
        ELSE ScanAllFrom(SliceFrom(data, r.advance), Append(acc, r.token))

\* The tokens and the error of a full scan of data.
ScanAll(data) == ScanAllFrom(data, <<>>)

\* The bytes of the tokens delivered so far.
EmittedTokens == [i \in 1..Len(emitted) |-> TokenBytes(i)]

\* The archive is a line break followed by records of which the first
\* starts with "From ".
StartingLF ==
    /\ Len(archive) >= 2
    /\ archive[1] = "lf"
    /\ HasPrefix(RecordBytes(archive[2]), FromSP)

\* C21: in message mode the full scan of an archive that starts with a line
\* break before its first separator line delivers the same tokens, in the
\* same order, and ends with the same Err() as the full scan of the archive
\* without that line break.
C21_LeadingLineBreak ==
    (StartingLF /\ DefaultBuffer /\ ReturnedFalse) =>
        /\ EmittedTokens = ScanAll(Concat(Tail(archive))).tokens
        /\ Err = ScanAll(Concat(Tail(archive))).err

\* A line break and one message: the scan has delivered the message.
C21_Witness ==
    /\ StartingLF /\ DefaultBuffer /\ ReturnedFalse
    /\ archive[2] = "msg"
    /\ EmittedTokens = <<FieldA \o FieldB \o NL \o TextX>>
    /\ Err = "nil"

\* Three line breaks stand at the offsets i, i+1, i+2 of data.
TripleAt(data, i) ==
    /\ i + 3 <= Len(data)
    /\ data[i + 1] = 10 /\ data[i + 2] = 10 /\ data[i + 3] = 10

\* C22: scanHeader never returns an error.  With atEOF = false it returns
\* advance 0 and no token when the buffer has no "\n\n\n", and otherwise
\* the bytes up to and including the first "\n\n\n" as token, with the
\* length of the token as advance.  With atEOF = true and a non-empty
\* buffer it returns the whole buffer as token and its length as advance,
\* whether or not the buffer has a "\n\n\n".
C22_HeaderSplitStep ==
    split.called =>
        /\ split.r.err = "nil"
        /\ (~split.atEOF /\ ~\E i \in 0..split.n : TripleAt(SplitData, i)) =>
              split.r = SplitNone(0)
        /\ (~split.atEOF /\ \E i \in 0..split.n : TripleAt(SplitData, i)) =>
              /\ split.r.hasToken
              /\ split.r.from = 0
              /\ split.r.token = Slice(SplitData, 0, split.r.to)
              /\ split.r.advance = Len(split.r.token)
              /\ TripleAt(SplitData, split.r.to - 3)
              /\ \A i \in 0..(split.r.to - 4) : ~TripleAt(SplitData, i)
        /\ (split.atEOF /\ split.n > 0) =>
              /\ split.r.hasToken
              /\ split.r.token = SplitData
              /\ split.r.advance = split.n

\* Two header blocks given with atEOF = false: the token is the first.
C22_Witness ==
    /\ split.called /\ ~split.atEOF
    /\ archive = <<"hdr0", "hdr1">> /\ split.n = Len(stream)
    /\ split.r.token = RecordBytes("hdr0")
    /\ split.r.advance = Len(RecordBytes("hdr0"))

\* C23 as stated: scanMessage with atEOF = true on a buffer that has at
\* least one separator candidate returns a token and a positive advance;
\* it returns advance 0 with no token and no error only when atEOF is
\* false (or the buffer is empty).
C23_NoMessageLostAtEOF ==
    (split.called /\ split.atEOF) =>
        /\ Candidates(SplitData) # {} =>
              (split.r.hasToken /\ split.r.advance > 0)
        /\ split.n > 0 =>
              ~(split.r.advance = 0 /\ ~split.r.hasToken /\ split.r.err = "nil")

\* The candidates of data at which a token that ends at offset to ends:
\* at to when the separator line starts there, at to + 1 when the token
\* ends at the line break before it.
EndingCandidates(data, to) ==
    { q \in Candidates(data) : q \in {to, to + 1} }

\* The answer of the split function on the window the bufio.Scanner holds.
WindowSplit == scanMessage(window, s.err # "nil")

\* C24: when scanMessage returns a token that ends before the end of the
\* buffer, a candidate S with a valid header block stands where the token
\* ends, and the first separator findFroms reports in the bytes left after
\* the advance is S.  Over a scan, every token after the first starts after
\* the line of the valid candidate at which the token before it ended.
C24_SeparatorContinuity ==
    /\ (WindowSplit.hasToken /\ WindowSplit.to < Len(window)) =>
          \E q \in EndingCandidates(window, WindowSplit.to) :
             /\ ValidHeaderAfter(window, q)
             /\ findFroms(SliceFrom(window, WindowSplit.advance))[2]
                   + WindowSplit.advance = LineEnd(window, q)
    /\ \A i \in 2..Len(emitted) :
          \E q \in EndingCandidates(stream, emitted[i - 1][2]) :
             /\ ValidHeaderAfter(stream, q)
             /\ emitted[i][1] = LineEnd(stream, q)

\* Two tokens were delivered, and the window left holds a third message
\* whose separator ended the second token.
C24_Witness ==
    /\ Len(emitted) = 2
    /\ pc = "scan"
    /\ EndingCandidates(stream, emitted[1][2]) # {}
    /\ emitted[2][2] < Len(stream)
    /\ findFroms(window) # <<-1, -1>>

\* The values of curEnd in the loop of scanMessage on the window, the
\* first being the end of the first separator line.
WindowOffsets ==
    IF findFroms(window) = <<-1, -1>> THEN <<>>
    ELSE scanMessageOffsets(window, findFroms(window)[2],
                            <<findFroms(window)[2]>>)

\* C25: in one call of scanMessage the search offset grows with every pass
\* of the loop and stays within the buffer; every token comes with an
\* advance n, 0 < n <= len(buffer); and for every stream a call of Next
\* returns false after finitely many steps.
C25_ProgressTermination ==
    /\ [](\A i \in 1..Len(WindowOffsets) :
             /\ WindowOffsets[i] <= Len(window)
             /\ i > 1 => WindowOffsets[i - 1] < WindowOffsets[i])
    /\ [](WindowSplit.hasToken =>
             (0 < WindowSplit.advance /\ WindowSplit.advance <= Len(window)))
    /\ <>ReturnedFalse

\* The loop of scanMessage went over three candidates in one call, tokens
\* were delivered and Next has returned false.
C25_Witness ==
    /\ ReturnedFalse
    /\ Len(emitted) = 2
    /\ rpos = Len(stream)
    /\ \E n \in 1..Len(stream) :
          Len(scanMessageOffsets(Slice(stream, 0, n), Len(SepLine),
                                 <<Len(SepLine)>>)) >= 3

\* C26: in message mode with the buffer of bufio (no limit reached), the
\* tokens delivered so far are the first tokens of the full scan of the
\* stream given in one piece, and when Next has returned false the tokens
\* and Err() are those of that scan: they are the same for every way the
\* reader cuts the stream and reports its end.
C26_ChunkingIndependence ==
    DefaultBuffer =>
        LET whole == ScanAll(stream)
        IN  /\ Len(emitted) <= Len(whole.tokens)
            /\ EmittedTokens = SubSeq(whole.tokens, 1, Len(emitted))
            /\ ReturnedFalse =>
                  (EmittedTokens = whole.tokens /\ Err = whole.err)

\* The reader gave the stream in several pieces, the last of them before
\* it reported the end; two tokens were delivered and Next returned false.
C26_Witness ==
    /\ DefaultBuffer /\ ReturnedFalse
    /\ Len(emitted) = 2
    /\ s.end < Len(stream)
    /\ EmittedTokens = ScanAll(stream).tokens

RECURSIVE Flatten(_)
\* The concatenation of a sequence of byte strings.
Flatten(seqs) ==
    IF seqs = <<>> THEN <<>> ELSE Head(seqs) \o Flatten(Tail(seqs))

\* The answer of scanHeader on the window the bufio.Scanner holds.
WindowSplitHeader == scanHeader(window, s.err # "nil")

\* C27: in header mode every answer of scanHeader with a token has the
\* length of the token as advance and a prefix of the buffer as token; the
\* tokens delivered so far, one after the other, are the bytes of the
\* stream consumed so far; and after a full scan they are the stream byte
\* for byte.
C27_HeaderModeLossless ==
    /\ WindowSplitHeader.hasToken =>
          /\ WindowSplitHeader.advance = Len(WindowSplitHeader.token)
          /\ WindowSplitHeader.token
                = Slice(window, 0, Len(WindowSplitHeader.token))
    /\ pc = "idle" => Flatten(EmittedTokens) = Slice(stream, 0, Consumed)
    /\ (ReturnedFalse /\ Err = "nil") => Flatten(EmittedTokens) = stream

\* Two blocks were delivered as two tokens and Next returned false.
C27_Witness ==
    /\ archive = <<"hdr0", "hdr1">>
    /\ ReturnedFalse /\ Err = "nil"
    /\ Len(emitted) = 2
    /\ Flatten(EmittedTokens) = stream

\* C28 as stated: Location() changes only in a call of Next that returns
\* true, and then it grows; a call of Next that returns false (sticky
\* error, exhaustion, error of the split or of the decoding) leaves it as
\* it was.
C28_LocationFrame ==
    [][ Location' # Location =>
          (pc' = "idle" /\ ret' = "ok" /\ Location' > Location) ]_vars

====
